---- MODULE Spec2Model ----
(***************************************************************************)
(* base-acme-client (src/acme.js, current export set at lines 440-1057):   *)
(* the retry loops fetchAndRetryUntilOk and fetchAndRetryProtectedUntilOk, *)
(* newNonce, getNextNonce and the exported operations that run them and    *)
(* build the result with returnAnswer and notCompletedError, as state      *)
(* machines whose steps are the stretches of code between two awaits       *)
(* (Spec, FairSpec); two signed operations in progress together            *)
(* (ConcSpec); and the pure functions base64urlEncode, hexToBytes and      *)
(* signPayload applied to bounded sets of arguments (CodecSpec).           *)
(***************************************************************************)
EXTENDS Integers, Sequences, FiniteSets, TLC

\* ---------------------------------------------------------------- bounds
\* Largest `attempts` argument tried for a direct call of either loop.
MaxAttempts == 3

\* ------------------------------------------------------ program constants
DefaultAttempts == 6
PlainBaseDelay == 650
NonceFailBaseDelay == 650
ProtectedBaseDelay == 2250
DefaultProtectedAttempts == 3
PostAsGetAttempts == 3
SuggestedWindowAttempts == 2
FailedStatus == 777777
ExceptionStatus == 777779
ReadmeExceptionStatus == 777777

\* ----------------------------------------------------------------- values
\* Nonces are positive integers; NoNonce stands for null / undefined
\* (the code tests `== undefined`, which is true of both).
NoNonce == 0
\* NoWait marks an attempt after which no timer was started.
NoWait == 0

\* A fetch Response: ok is response.ok, replay the Replay-Nonce header
\* (NoNonce when the header is missing), n the attempt that obtained it.
Response(n, ok, replay) == [some |-> TRUE, n |-> n, ok |-> ok, replay |-> replay]
\* The value `undefined` where a Response is expected.
Undefined == [some |-> FALSE, n |-> 0, ok |-> FALSE, replay |-> NoNonce]

VARIABLES
    op,      \* the exported function the caller invoked ("idle" before)
    plain,   \* activation of fetchAndRetryUntilOk
    prot,    \* activation of fetchAndRetryProtectedUntilOk
    posts,   \* POST requests sent by fetchRequest, in order
    issued,  \* number of nonces the server has issued so far
    call,    \* activation of the exported operation `op`
    codec,   \* a call of base64urlEncode, hexToBytes or signPayload
    conc     \* two signed operations in progress at the same time

vars == <<op, plain, prot, posts, issued, call, codec, conc>>

\* What the retry loops and the operations leave alone.
others == <<codec, conc>>

\* ------------------------------------------------ shared loop conditions
\* Mutant: the loop runs once more than asked.
LoopContinues_extra(a, attempts) == a <= attempts + 1

\* `while (a <= attempts)`
LoopContinues(a, attempts) == a <= attempts

\* Mutant: the non-2xx response of the last but one attempt is returned.
Exhausted_early(a, attempts) == a >= attempts

\* `if (a > attempts) return response;`
Exhausted(a, attempts) == a > attempts

\* Mutant: a 2xx response is treated like any other.
ReturnsAtOnce_never(response) == FALSE

\* `if (response.ok) return response;`
ReturnsAtOnce(response) == response.ok

\* Mutant: the delay is computed from the number of the failed attempt.
Delay_previous(base, a) == base * (a - 1)

\* `setTimeout(..., base * a)`; a has already been incremented
Delay(base, a) == base * a

\* ------------------------------------------------- fetchAndRetryUntilOk
IdlePlain ==
    [pc |-> "idle", caller |-> "none", a |-> 0, attempts |-> 0,
     result |-> Undefined, log |-> <<>>]

\* Top of the while loop: either `a++` and the call of fetch, which
\* suspends at the await, or the `return undefined` after the loop.
PlainLoopHead(f) ==
    IF LoopContinues(f.a, f.attempts)
    THEN [f EXCEPT !.a = f.a + 1, !.pc = "fetching"]
    ELSE [f EXCEPT !.pc = "done", !.result = Undefined]

\* `let a = 1;` and the first evaluation of the loop condition.
PlainEnter(caller, attempts) ==
    PlainLoopHead([IdlePlain EXCEPT !.caller = caller, !.a = 1,
                                    !.attempts = attempts])

\* How an attempt ended, as the log tells it.
Outcome(response) ==
    IF ~response.some THEN "throw" ELSE IF response.ok THEN "ok" ELSE "notok"

\* One line of the log of fetchAndRetryUntilOk: attempt n ended with
\* `response` (Undefined when fetch threw) and started a timer of `wait` ms.
Fetched(f, response, wait) ==
    [n |-> f.a - 1, outcome |-> Outcome(response), response |-> response,
     wait |-> wait]

\* fetch resolved with a Response.
PlainOnResponse(f, response) ==
    IF ReturnsAtOnce(response)
    THEN [f EXCEPT !.pc = "done", !.result = response,
             !.log = Append(f.log, Fetched(f, response, NoWait))]
    ELSE IF Exhausted(f.a, f.attempts)
    THEN [f EXCEPT !.pc = "done", !.result = response,
             !.log = Append(f.log, Fetched(f, response, NoWait))]
    ELSE [f EXCEPT !.pc = "waiting",
             !.log = Append(f.log, Fetched(f, response,
                                           Delay(PlainBaseDelay, f.a)))]

\* fetch rejected: the catch block logs and the loop goes round.
PlainOnThrow(f) ==
    PlainLoopHead([f EXCEPT !.log = Append(f.log, Fetched(f, Undefined, NoWait))])

\* The backoff timer fired.
PlainOnTimer(f) == PlainLoopHead(f)

\* ------------------------------------------------------------- newNonce
\* What newNonce makes of the value fetchAndRetryUntilOk returned: the
\* Replay-Nonce header of a 2xx response, else an error object (the parsed
\* problem document, or notCompletedError when there is no response or
\* response.json() throws).  Either way the error object has no nonce.
newNonce(response) ==
    IF response.some /\ response.ok
    THEN [nonce |-> response.replay, error |-> "none"]
    ELSE IF response.some
    THEN [nonce |-> NoNonce, error |-> "server"]
    ELSE [nonce |-> NoNonce, error |-> "bac:failed:newNonce"]

\* ---------------------------------------------------------------- codec
\* Texts and byte arrays are sequences of numbers 0..255 (a text is the
\* sequence of its UTF-8 bytes; the texts used here are ASCII, for which
\* `.length` is Len); the characters of an encoded string are one-character
\* strings.
Base64Alphabet ==
    <<"A", "B", "C", "D", "E", "F", "G", "H", "I", "J", "K", "L", "M",
      "N", "O", "P", "Q", "R", "S", "T", "U", "V", "W", "X", "Y", "Z",
      "a", "b", "c", "d", "e", "f", "g", "h", "i", "j", "k", "l", "m",
      "n", "o", "p", "q", "r", "s", "t", "u", "v", "w", "x", "y", "z",
      "0", "1", "2", "3", "4", "5", "6", "7", "8", "9", "+", "/">>

\* Buffer.from(bytes).toString('base64'): three bytes make four characters,
\* a rest of one or two bytes is padded with '='.
RECURSIVE Base64(_)
Base64(b) ==
    IF Len(b) = 0 THEN <<>>
    ELSE IF Len(b) = 1
    THEN <<Base64Alphabet[b[1] \div 4 + 1],
           Base64Alphabet[(b[1] % 4) * 16 + 1], "=", "=">>
    ELSE IF Len(b) = 2
    THEN <<Base64Alphabet[b[1] \div 4 + 1],
           Base64Alphabet[(b[1] % 4) * 16 + b[2] \div 16 + 1],
           Base64Alphabet[(b[2] % 16) * 4 + 1], "=">>
    ELSE <<Base64Alphabet[b[1] \div 4 + 1],
           Base64Alphabet[(b[1] % 4) * 16 + b[2] \div 16 + 1],
           Base64Alphabet[(b[2] % 16) * 4 + b[3] \div 64 + 1],
           Base64Alphabet[(b[3] % 64) + 1]>> \o Base64(SubSeq(b, 4, Len(b)))

\* `.replace(/x/g, y)` for a one-character pattern.
ReplaceAll(s, x, y) == [i \in 1..Len(s) |-> IF s[i] = x THEN y ELSE s[i]]

\* `.replace(/=+$/, '')`
RECURSIVE StripPadding(_)
StripPadding(s) ==
    IF Len(s) > 0 /\ s[Len(s)] = "="
    THEN StripPadding(SubSeq(s, 1, Len(s) - 1))
    ELSE s

\* Mutant: the standard base64 text is returned as it is.
base64urlEncode_plain(input) == Base64(input)

\* base64urlEncode(input)
base64urlEncode(input) ==
    StripPadding(ReplaceAll(ReplaceAll(Base64(input), "+", "-"), "/", "_"))

\* The hexadecimal digits parseInt(_, 16) reads, by value + 1.
HexDigits ==
    <<{"0"}, {"1"}, {"2"}, {"3"}, {"4"}, {"5"}, {"6"}, {"7"}, {"8"}, {"9"},
      {"a", "A"}, {"b", "B"}, {"c", "C"}, {"d", "D"}, {"e", "E"}, {"f", "F"}>>

IsHexDigit(c) == \E v \in 1..16 : c \in HexDigits[v]
HexValue(c) == (CHOOSE v \in 1..16 : c \in HexDigits[v]) - 1

\* NaN, which no parse of digits yields.
NaN == -1

\* parseInt(s, 16) for a string of digits and letters: the value of the
\* longest prefix of hexadecimal digits, NaN when that prefix is empty.
RECURSIVE ParseHexPrefix(_, _)
ParseHexPrefix(s, acc) ==
    IF Len(s) > 0 /\ IsHexDigit(s[1])
    THEN ParseHexPrefix(Tail(s), acc * 16 + HexValue(s[1]))
    ELSE acc
parseInt16(s) ==
    IF Len(s) > 0 /\ IsHexDigit(s[1]) THEN ParseHexPrefix(s, 0) ELSE NaN

\* The store of a number in a Uint8Array element: NaN becomes 0.
ToUint8(v) == IF v = NaN THEN 0 ELSE v % 256

\* `hex.substring(i, i + 2)` for the 0-based i.
Substring2(hex, i) ==
    SubSeq(hex, i + 1, IF i + 2 <= Len(hex) THEN i + 2 ELSE Len(hex))

\* hexToBytes(hex): `new Uint8Array(hex.length / 2)` has the length cut to
\* a whole number, and a store past the end of the array is dropped, so
\* that the last character of an odd-length string is lost; no statement
\* of the function throws.
hexToBytes(hex) ==
    [threw |-> FALSE,
     bytes |-> [k \in 1..(Len(hex) \div 2) |->
                   ToUint8(parseInt16(Substring2(hex, 2 * (k - 1))))]]

\* crypto's sign(): the signature, kept as the key that made it and the
\* text it was made over.
Sign(data, privateKey) == [key |-> privateKey, over |-> data]

\* signPayload(payload, protectedHeader, privateKey) for the text
\* `payload` and the text JSON.stringify made of the protected header: the
\* object that is serialized as the JWS.
signPayload(payload, protectedHeader, privateKey) ==
    LET payload64 == base64urlEncode(payload)
        protected64 == base64urlEncode(protectedHeader)
    IN  [signature |-> Sign(protected64 \o <<".">> \o payload64, privateKey),
         payload |-> IF Len(payload) > 1 THEN payload64 ELSE <<>>,
         protected |-> protected64]

\* -------------------------------------------------------------- signing
\* The JWS signPayloadJson / signPayload make of the payload and protected
\* header of an operation, as the retry loop and the server see it.  The
\* field `protected` stands for base64urlEncode(JSON.stringify(
\* protectedHeader)), which is one-to-one in the header and so carries the
\* nonce; the signature is computed over the protected and the payload
\* part.  The field `payload` is the payload field of the JWS.
\*
\* JSON.stringify(payload) for the payload objects of the operations: the
\* text "{}" for the empty object; of the text of an object with members
\* the braces and one character between them are kept.
Stringify(payload) ==
    IF payload = "{}" THEN <<123, 125>> ELSE <<123, 48, 125>>

\* `payload != "" ? await signPayloadJson(payload, ...) : await
\* signPayload("", ...)`, of which the payload field is taken; that field
\* does not depend on the header, whose text is given as "{}".
PayloadField(payload) ==
    IF payload # ""
    THEN signPayload(Stringify(payload), <<123, 125>>, "privateKey").payload
    ELSE signPayload(<<>>, <<123, 125>>, "privateKey").payload

SignedBody(payload, protectedHeader) ==
    [protected |-> protectedHeader, payload |-> PayloadField(payload),
     signature |-> <<protectedHeader, payload>>]

\* ---------------------------------------- fetchAndRetryProtectedUntilOk
IdleHeader ==
    [alg |-> "ES256", jwk |-> "absent", kid |-> "absent", nonce |-> NoNonce,
     url |-> "none"]

\* The acmeDirectory argument: the object the caller got from newDirectory.
Directory == [newNonce |-> "U1", newAccount |-> "U2", newOrder |-> "U3"]

\* Where no directory object has been passed yet.
NoDirectory == [newNonce |-> "none", newAccount |-> "none", newOrder |-> "none"]

IdleProt ==
    [pc |-> "idle", a |-> 0, attempts |-> 0, payload |-> "none",
     protectedHeader |-> IdleHeader, asked |-> FALSE,
     result |-> Undefined, log |-> <<>>,
     privateKey |-> "usable", given |-> NoNonce,
     acmeDirectory |-> NoDirectory]

\* Mutant: a nonce is asked for even when the header holds one.
NonceAbsent_always(nonce) == TRUE

\* Mutant: the header is taken to hold a nonce whatever it holds.
NonceAbsent_never(nonce) == FALSE

\* `if (protectedHeader.nonce == undefined)`
NonceAbsent(nonce) == nonce = NoNonce

\* `if (nextNonce.nonce)`
NonceObtained(nextNonce) == nextNonce.nonce # NoNonce

\* Mutant: the rejected nonce is left in the header.
ClearNonce_kept(protectedHeader) == protectedHeader

\* Mutant: the header object is replaced by an empty one.
ClearNonce_all(protectedHeader) == IdleHeader

\* `protectedHeader.nonce = undefined;`
ClearNonce(protectedHeader) == [protectedHeader EXCEPT !.nonce = NoNonce]

\* Sign with the current header and call fetchRequest(POST, header.url,
\* signed).  crypto's sign throws on a key it cannot use, so that the await
\* of signPayloadJson / signPayload rejects and nothing is posted.
ProtSignAndPost(p) ==
    IF p.privateKey = "usable"
    THEN [p EXCEPT !.pc = "posting"]
    ELSE [p EXCEPT !.pc = "signing"]

\* The POST that ProtSignAndPost hands to fetch.
PostOf(p) ==
    [n |-> p.a - 1, url |-> p.protectedHeader.url,
     nonce |-> p.protectedHeader.nonce, asked |-> p.asked,
     body |-> SignedBody(p.payload, p.protectedHeader)]

\* Top of the while loop: `a++`, then either the call of newNonce or the
\* signed POST; after the loop `return undefined`.
ProtLoopHead(p) ==
    IF LoopContinues(p.a, p.attempts)
    THEN LET q == [p EXCEPT !.a = p.a + 1, !.asked = FALSE] IN
         IF NonceAbsent(q.protectedHeader.nonce)
         THEN [q EXCEPT !.pc = "newNonce"]
         ELSE ProtSignAndPost(q)
    ELSE [p EXCEPT !.pc = "done", !.result = Undefined]

\* `let a = 1;` and the first evaluation of the loop condition.  `given`
\* keeps the nonce the header held at the call; acmeDirectory is the
\* caller's object, which the loop reads the newNonce URL from.
ProtEnter(payload, protectedHeader, privateKey, acmeDirectory, attempts) ==
    ProtLoopHead([IdleProt EXCEPT !.a = 1, !.attempts = attempts,
                    !.payload = payload, !.protectedHeader = protectedHeader,
                    !.privateKey = privateKey,
                    !.given = protectedHeader.nonce,
                    !.acmeDirectory = acmeDirectory])

\* Mutant: a failed nonce acquisition ends the loop instead of the attempt.
ProtOnNonce_returns(p, nextNonce, asked) ==
    IF NonceObtained(nextNonce)
    THEN ProtSignAndPost([p EXCEPT !.protectedHeader.nonce = nextNonce.nonce,
                                   !.asked = asked])
    ELSE [p EXCEPT !.pc = "done", !.asked = asked, !.result = Undefined,
             !.log = Append(p.log, [n |-> p.a - 1, outcome |-> "nonceFail",
                                    nonce |-> NoNonce, asked |-> asked,
                                    response |-> Undefined, wait |-> NoWait])]

\* newNonce returned nextNonce; asked: it sent a request to the nonce endpoint.
ProtOnNonce(p, nextNonce, asked) ==
    IF NonceObtained(nextNonce)
    THEN ProtSignAndPost([p EXCEPT !.protectedHeader.nonce = nextNonce.nonce,
                                   !.asked = asked])
    ELSE [p EXCEPT !.pc = "nonceWait", !.asked = asked,
             !.log = Append(p.log, [n |-> p.a - 1, outcome |-> "nonceFail",
                                    nonce |-> NoNonce, asked |-> asked,
                                    response |-> Undefined,
                                    wait |-> Delay(NonceFailBaseDelay, p.a)])]

\* One line of the log for an attempt that sent a POST.
Posted(p, response, wait) ==
    [n |-> p.a - 1, outcome |-> Outcome(response),
     nonce |-> p.protectedHeader.nonce,
     asked |-> p.asked, response |-> response, wait |-> wait]

\* Mutant: the timer is started but not awaited.
ProtOnResponse_nowait(p, response) ==
    IF ReturnsAtOnce(response) \/ Exhausted(p.a, p.attempts)
    THEN [p EXCEPT !.pc = "done", !.result = response,
             !.log = Append(p.log, Posted(p, response, NoWait))]
    ELSE ProtLoopHead([p EXCEPT
             !.protectedHeader = ClearNonce(p.protectedHeader),
             !.log = Append(p.log, Posted(p, response,
                                          Delay(ProtectedBaseDelay, p.a)))])

\* Mutant: the rejected nonce's endpoint is cleared in the directory.
ProtOnResponse_directory(p, response) ==
    IF ReturnsAtOnce(response) \/ Exhausted(p.a, p.attempts)
    THEN [p EXCEPT !.pc = "done", !.result = response,
             !.log = Append(p.log, Posted(p, response, NoWait))]
    ELSE [p EXCEPT !.pc = "waiting",
             !.protectedHeader = ClearNonce(p.protectedHeader),
             !.acmeDirectory.newNonce = "undefined",
             !.log = Append(p.log, Posted(p, response,
                                          Delay(ProtectedBaseDelay, p.a)))]

\* fetchRequest resolved with a Response.
ProtOnResponse(p, response) ==
    IF ReturnsAtOnce(response)
    THEN [p EXCEPT !.pc = "done", !.result = response,
             !.log = Append(p.log, Posted(p, response, NoWait))]
    ELSE IF Exhausted(p.a, p.attempts)
    THEN [p EXCEPT !.pc = "done", !.result = response,
             !.log = Append(p.log, Posted(p, response, NoWait))]
    ELSE [p EXCEPT !.pc = "waiting",
             !.protectedHeader = ClearNonce(p.protectedHeader),
             !.log = Append(p.log, Posted(p, response,
                                          Delay(ProtectedBaseDelay, p.a)))]

\* fetchRequest rejected: the catch block logs and the loop goes round,
\* the nonce still in the header.
ProtOnThrow(p) ==
    ProtLoopHead([p EXCEPT !.log = Append(p.log, Posted(p, Undefined, NoWait))])

\* The await of the signing rejected: the same catch block, and no POST
\* was sent in this attempt.
ProtOnSignThrow(p) ==
    ProtLoopHead([p EXCEPT !.log = Append(p.log,
        [n |-> p.a - 1, outcome |-> "signThrow",
         nonce |-> p.protectedHeader.nonce, asked |-> p.asked,
         response |-> Undefined, wait |-> NoWait])])

\* Mutant: the timer's promise is never resolved.
ProtOnTimer_stuck(p) == p

\* Either backoff timer of the protected loop fired.
ProtOnTimer(p) == ProtLoopHead(p)

\* ------------------------------------------------------------ the server
\* A response carries a Replay-Nonce the server never issued before, or none.
Replay(hasNonce) == IF hasNonce THEN issued + 1 ELSE NoNonce

\* The nonce the caller of a signed operation may hold from an earlier response.
CallerNonce == 1

\* -------------------------------------------------- exported operations
\* The functions that sign a request, and those that only fetch.
SignedOperations ==
    {"createAccount", "createOrder", "finalizeOrder", "postAsGet",
     "postAsGetChal"}
PlainOperations == {"newDirectory", "fetchSuggestedWindow"}

\* Mutant: every protected header is addressed to newOrder.
UrlOf_newOrder(name, acmeDirectory) == acmeDirectory.newOrder

\* `url:` of the protected header an operation builds; finalizeOrder,
\* postAsGet and postAsGetChal take it from their argument.
UrlOf(name, acmeDirectory) ==
    CASE name = "createAccount" -> acmeDirectory.newAccount
      [] name = "createOrder" -> acmeDirectory.newOrder
      [] OTHER -> "url"

\* Mutant: the header names the account and carries the public key too.
HeaderOf_both(name, nonce, acmeDirectory) ==
    [alg |-> "ES256", jwk |-> "jsonWebKey", kid |-> "kid", nonce |-> nonce,
     url |-> UrlOf(name, acmeDirectory)]

\* The protectedHeader object an operation builds: createAccount puts the
\* public key under jwk, the others the account URL under kid; a key the
\* object literal does not have is "absent".
HeaderOf(name, nonce, acmeDirectory) ==
    IF name = "createAccount"
    THEN [alg |-> "ES256", jwk |-> "jsonWebKey", kid |-> "absent",
          nonce |-> nonce, url |-> UrlOf(name, acmeDirectory)]
    ELSE [alg |-> "ES256", jwk |-> "absent", kid |-> "kid",
          nonce |-> nonce, url |-> UrlOf(name, acmeDirectory)]

\* Mutant: the challenge poll signs the empty text as the status poll does.
PayloadOf_emptyPolls(name) ==
    CASE name = "createAccount" -> "termsOfServiceAgreed"
      [] name = "createOrder" -> "identifiers"
      [] name = "finalizeOrder" -> "csr"
      [] OTHER -> ""

\* The payload an operation signs: postAsGet the text METHOD_POST_AS_GET
\* = "", postAsGetChal the object METHOD_POST_AS_GET_CHALLENGE = {}.
PayloadOf(name) ==
    CASE name = "createAccount" -> "termsOfServiceAgreed"
      [] name = "createOrder" -> "identifiers"
      [] name = "finalizeOrder" -> "csr"
      [] name = "postAsGet" -> ""
      [] OTHER -> "{}"

\* The `attempts` an operation's retry loop runs with.
AttemptsOf(name) ==
    CASE name = "newDirectory" -> DefaultAttempts
      [] name = "fetchSuggestedWindow" -> SuggestedWindowAttempts
      [] name \in {"postAsGet", "postAsGetChal"} -> PostAsGetAttempts
      [] OTHER -> DefaultProtectedAttempts

\* The operations whose try block awaits everything it starts; the others
\* `return returnAnswer(...)` without await, which leaves the try block
\* before the promise settles.
Catches(name) == name \in {"newDirectory", "createAccount", "fetchSuggestedWindow"}

\* A key that is missing from an object.
Absent ==
    [kind |-> "absent", type |-> "", of |-> "", status |-> 0, n |-> 0,
     ok |-> FALSE]

\* What `await response.json()` resolves to: the document the server put
\* in that response.
Json(response) ==
    [kind |-> "json", type |-> "", of |-> "", status |-> 0, n |-> response.n,
     ok |-> response.ok]

\* An object with none of the keys get, error, location, nonce.
NoEnvelope ==
    [get |-> Absent, error |-> Absent, location |-> "absent", nonce |-> NoNonce]

\* Mutant: the error object is left out.
errorTemplate_empty(type, error, status) == NoEnvelope

\* errorTemplate: `{ error: { type, detail, status } }`; the type is kept
\* as its prefix and the function name that follows it.
errorTemplate(type, error, status) ==
    [NoEnvelope EXCEPT !.error =
        [kind |-> "local", type |-> type, of |-> error, status |-> status,
         n |-> 0, ok |-> FALSE]]

\* Mutant: the two status numbers change places.
notCompletedError_swapped(error, exception) ==
    IF ~exception
    THEN errorTemplate("bac:failed", error, ExceptionStatus)
    ELSE errorTemplate("bac:exception", error, FailedStatus)

\* notCompletedError(error, exception); exception is TRUE when the second
\* argument was passed.
notCompletedError(error, exception) ==
    IF ~exception
    THEN errorTemplate("bac:failed", error, FailedStatus)
    ELSE errorTemplate("bac:exception", error, ExceptionStatus)

\* `{ [response.ok ? 'get' : 'error']: await response.json() }`
Keyed(response, json) ==
    [NoEnvelope EXCEPT !.get = IF response.ok THEN json ELSE Absent,
                       !.error = IF response.ok THEN Absent ELSE json]

\* returnAnswer, once its three values are known.
returnAnswer(response, json, location, nonce) ==
    [Keyed(response, json) EXCEPT !.location = location, !.nonce = nonce]

\* Mutant: the Replay-Nonce header is never looked at.
ReplayMissing_always(headers) == TRUE

\* getNextNonce: `headers ? headers.get(REPLAY_NONCE) : undefined`, then
\* `replay == undefined`; headers is Undefined for null.
ReplayMissing(headers) == ~headers.some \/ headers.replay = NoNonce

\* What a call of getNextNonce resolves to, a nonce or null, kept in the
\* nonce field of an object that has no other key.
NonceResult(nonce) == [NoEnvelope EXCEPT !.nonce = nonce]

\* Mutant: the nonce the caller passed in is handed back.
NextNonceValue_caller(nextNonce) == CallerNonce

\* getNextNonce after newNonce: `nextNonce.nonce ? nextNonce.nonce : null`
NextNonceValue(nextNonce) ==
    IF nextNonce.nonce # NoNonce THEN nextNonce.nonce ELSE NoNonce

\* Activation of an exported operation: the response its loop returned,
\* whether response.json() threw, the Location header once it was read,
\* the nonces issued before that response arrived, what the promise
\* settled with, and the acmeDirectory object it was called with.
IdleCall ==
    [pc |-> "idle", response |-> Undefined, threw |-> FALSE,
     location |-> "absent", issuedAt |-> 0, envelope |-> NoEnvelope,
     acmeDirectory |-> NoDirectory]

\* `return <envelope>`
Return(c, envelope) == [c EXCEPT !.pc = "returned", !.envelope = envelope]

\* The code after `const response = await fetchAndRetry...`: the test of
\* the response, then either the call of response.json() or
\* notCompletedError(name).
OnRetryDone(name, c, response) ==
    LET d == [c EXCEPT !.response = response, !.issuedAt = issued] IN
    IF name = "fetchSuggestedWindow"
    THEN IF response.some /\ response.ok
         THEN [d EXCEPT !.pc = "json"]
         ELSE Return(d, notCompletedError(name, FALSE))
    ELSE IF response.some
         THEN [d EXCEPT !.pc = "json"]
         ELSE Return(d, notCompletedError(name, FALSE))

\* response.json() resolved.  newDirectory and fetchSuggestedWindow return;
\* returnAnswer reads the Location header and enters getNextNonce, which
\* returns the Replay-Nonce header or awaits newNonce.
OnJson(name, c, location) ==
    IF name \in PlainOperations
    THEN Return(c, Keyed(c.response, Json(c.response)))
    ELSE IF ~ReplayMissing(c.response)
    THEN Return([c EXCEPT !.location = location],
                returnAnswer(c.response, Json(c.response), location,
                             c.response.replay))
    ELSE [c EXCEPT !.pc = "nextNonce", !.location = location]

\* response.json() rejected: the catch block where the promise was awaited
\* inside the try block, a rejected promise where it was not.
OnJsonThrow(name, c) ==
    IF Catches(name)
    THEN Return([c EXCEPT !.threw = TRUE], notCompletedError(name, TRUE))
    ELSE [c EXCEPT !.threw = TRUE, !.pc = "rejected"]

\* Mutant: without a next nonce the operation reports that it failed.
OnNextNonce_fails(c, nextNonce) ==
    IF nextNonce.nonce # NoNonce
    THEN Return(c, returnAnswer(c.response, Json(c.response), c.location,
                                NextNonceValue(nextNonce)))
    ELSE Return(c, notCompletedError("getNextNonce", FALSE))

\* newNonce returned inside getNextNonce: returnAnswer has its last value.
OnNextNonce(c, nextNonce) ==
    Return(c, returnAnswer(c.response, Json(c.response), c.location,
                           NextNonceValue(nextNonce)))

\* ------------------------------------------------- calls of the codec
\* Longest byte array, hexadecimal string and payload text tried.
MaxBytes == 3
MaxHex == 3
MaxPayload == 2

\* All sequences over S of length at most n.
SeqsUpTo(S, n) == UNION {[1..k -> S] : k \in 0..n}

\* Bytes whose base64 form has 'A', '+', '/' and padding among its
\* characters, and the digit "0".
ByteValues == {0, 48, 251, 255}
\* Characters of a hexadecimal string, one of them no digit.
HexChars == {"0", "a", "F", "z"}
\* The characters "0", "{" and "}" of a payload text.
PayloadChars == {48, 123, 125}
\* The text "{}" of a protected header.
HeaderTexts == {<<123, 125>>}

NoJws == [signature |-> Sign(<<>>, "none"), payload |-> <<>>, protected |-> <<>>]
IdleCodec ==
    [pc |-> "idle", fn |-> "none", input |-> <<>>, hex |-> <<>>,
     header |-> <<>>, key |-> "none", threw |-> FALSE, chars |-> <<>>,
     bytes |-> <<>>, jws |-> NoJws]

\* The calls of the three functions with their arguments.
CodecCalls ==
    {[IdleCodec EXCEPT !.pc = "called", !.fn = "base64urlEncode", !.input = b] :
        b \in SeqsUpTo(ByteValues, MaxBytes)}
    \cup
    {[IdleCodec EXCEPT !.pc = "called", !.fn = "hexToBytes", !.hex = h] :
        h \in SeqsUpTo(HexChars, MaxHex)}
    \cup
    {[IdleCodec EXCEPT !.pc = "called", !.fn = "signPayload", !.input = t,
                       !.header = h, !.key = "privateKey"] :
        t \in SeqsUpTo(PayloadChars, MaxPayload), h \in HeaderTexts}

\* ------------------------------------------- two operations at a time
\* The two calls in progress, and the function and nonce of each.
Calls == {1, 2}
NameOf(i) == IF i = 1 THEN "createOrder" ELSE "postAsGet"
NonceOf(i) == i

\* Mutant: both calls use one header object.
NewHeader_shared(i) == 1

\* The object the literal `{ alg, kid, nonce, url }` of call i creates: one
\* that did not exist before, named by the call.
NewHeader(i) == i

\* Nothing called yet: `header` is the object each call made (0: none),
\* `heap` the objects, `frames` the two activations of the protected loop,
\* `sent` the POSTs of both in the order they were sent, `issued` the
\* nonces the server has issued.
IdleConc ==
    [header |-> <<0, 0>>, heap |-> <<IdleHeader, IdleHeader>>,
     frames |-> <<IdleProt, IdleProt>>, sent |-> <<>>, issued |-> 2]

\* The activation of call i with the header object as it is now.
Frame(i) ==
    [conc.frames[i] EXCEPT !.protectedHeader = conc.heap[conc.header[i]]]

\* Call i ran to its next await and is now g; k nonces were issued.
ConcStep(i, g, k) ==
    conc' = [conc EXCEPT
        !.frames[i] = g,
        !.heap[conc.header[i]] = g.protectedHeader,
        !.sent = IF g.pc = "posting"
                 THEN Append(@, [by |-> i, n |-> g.a - 1,
                                 nonce |-> g.protectedHeader.nonce])
                 ELSE @,
        !.issued = @ + k]

\* ----------------------------------------------------------- transitions
\* The operation's activation after a step of the loop it called: the
\* loop was handed the operation's own directory object, and a loop that
\* has returned lets the operation go on.
AfterLoopStep(name, c, q) ==
    IF name \in SignedOperations
    THEN LET d == [c EXCEPT !.acmeDirectory = q.acmeDirectory] IN
         IF q.pc = "done" THEN OnRetryDone(name, d, q.result) ELSE d
    ELSE c

\* A step of the protected loop that ends in state q: the POST it sent, the
\* newNonce call it started.
ProtStepFor(name, c, q) ==
    /\ prot' = q
    /\ posts' = IF q.pc = "posting" THEN Append(posts, PostOf(q)) ELSE posts
    /\ plain' = IF q.pc = "newNonce"
                THEN PlainEnter("newNonce", DefaultAttempts) ELSE plain
    /\ call' = AfterLoopStep(name, c, q)

\* The same for the operation in progress.
ProtStep(q) == ProtStepFor(op, call, q)

\* A step of the plain loop that ends in state g: when the loop returns
\* inside newNonce, the protected loop goes on in the same turn.
PlainStep(g) ==
    IF g.pc = "done" /\ g.caller = "newNonce"
    THEN LET q == ProtOnNonce(prot, newNonce(g.result), Len(g.log) > 0) IN
         /\ plain' = IdlePlain
         /\ prot' = q
         /\ posts' = IF q.pc = "posting" THEN Append(posts, PostOf(q)) ELSE posts
         /\ call' = AfterLoopStep(op, call, q)
    ELSE IF g.pc = "done" /\ g.caller = "getNextNonce"
    THEN /\ plain' = IF op = "getNextNonce" THEN g ELSE IdlePlain
         /\ call' = IF op = "getNextNonce"
                    THEN Return(call, NonceResult(
                                    NextNonceValue(newNonce(g.result))))
                    ELSE OnNextNonce(call, newNonce(g.result))
         /\ UNCHANGED <<prot, posts>>
    ELSE /\ plain' = g
         /\ call' = IF g.pc = "done" /\ g.caller \in PlainOperations
                    THEN OnRetryDone(g.caller, call, g.result) ELSE call
         /\ UNCHANGED <<prot, posts>>

Init ==
    /\ op = "idle"
    /\ plain = IdlePlain
    /\ prot = IdleProt
    /\ posts = <<>>
    /\ issued = CallerNonce
    /\ call = IdleCall
    /\ codec = IdleCodec
    /\ conc = IdleConc

\* The caller invokes fetchAndRetryUntilOk(input, init, attempts).
CallFetchAndRetryUntilOk ==
    /\ op = "idle"
    /\ \E attempts \in 0..MaxAttempts :
          plain' = PlainEnter("direct", attempts)
    /\ op' = "fetchAndRetryUntilOk"
    /\ UNCHANGED <<prot, posts, issued, call>>
    /\ UNCHANGED others

\* The caller invokes fetchAndRetryProtectedUntilOk(payload, header, key,
\* directory, attempts) with or without a nonce in the header.
CallFetchAndRetryProtectedUntilOk ==
    /\ op = "idle"
    /\ \E nonce \in {NoNonce, CallerNonce}, attempts \in 0..MaxAttempts,
          privateKey \in {"usable", "unusable"} :
          ProtStep(ProtEnter("payload",
                     [alg |-> "ES256", jwk |-> "absent", kid |-> "kid",
                      nonce |-> nonce, url |-> "url"],
                     privateKey, Directory, attempts))
    /\ op' = "fetchAndRetryProtectedUntilOk"
    /\ UNCHANGED issued
    /\ UNCHANGED others

\* The caller invokes a signed operation with the nonce it holds, or with
\* none, and with a key that can sign or one that cannot.
CallSigned(name) ==
    /\ op = "idle"
    /\ \E nonce \in {NoNonce, CallerNonce},
          privateKey \in {"usable", "unusable"} :
          ProtStepFor(name, [IdleCall EXCEPT !.pc = "retry",
                                             !.acmeDirectory = Directory],
              ProtEnter(PayloadOf(name), HeaderOf(name, nonce, Directory),
                        privateKey, Directory, AttemptsOf(name)))
    /\ op' = name
    /\ UNCHANGED issued
    /\ UNCHANGED others

\* The caller invokes an operation that only fetches.
CallPlain(name) ==
    /\ op = "idle"
    /\ plain' = PlainEnter(name, AttemptsOf(name))
    /\ call' = [IdleCall EXCEPT !.pc = "retry"]
    /\ op' = name
    /\ UNCHANGED <<prot, posts, issued>>
    /\ UNCHANGED others

newDirectory == CallPlain("newDirectory")
fetchSuggestedWindow == CallPlain("fetchSuggestedWindow")
createAccount == CallSigned("createAccount")
createOrder == CallSigned("createOrder")
finalizeOrder == CallSigned("finalizeOrder")
postAsGet == CallSigned("postAsGet")
postAsGetChal == CallSigned("postAsGetChal")

\* The caller invokes getNextNonce(headers, acmeDirectory) with null, with
\* headers that hold no Replay-Nonce, or with headers that hold one.
getNextNonce ==
    /\ op = "idle"
    /\ \E headers \in {Undefined, Response(0, TRUE, NoNonce),
                        Response(0, TRUE, CallerNonce)} :
          LET c == [IdleCall EXCEPT !.response = headers,
                                    !.acmeDirectory = Directory] IN
          IF ReplayMissing(headers)
          THEN /\ call' = [c EXCEPT !.pc = "nextNonce"]
               /\ plain' = PlainEnter("getNextNonce", DefaultAttempts)
          ELSE /\ call' = Return(c, NonceResult(headers.replay))
               /\ plain' = plain
    /\ op' = "getNextNonce"
    /\ UNCHANGED <<prot, posts, issued>>
    /\ UNCHANGED others

\* response.json() resolves.  The Location header, which only returnAnswer
\* reads and only here, is either missing ("null") or holds "L".
JsonResolves ==
    /\ call.pc = "json"
    /\ \E location \in {"null", "L"} :
          /\ op \in PlainOperations => location = "null"
          /\ call' = OnJson(op, call, location)
    /\ plain' = IF call'.pc = "nextNonce"
                THEN PlainEnter("getNextNonce", DefaultAttempts) ELSE plain
    /\ UNCHANGED <<op, prot, posts, issued>>
    /\ UNCHANGED others

\* response.json() rejects: the body is not JSON.
JsonRejects ==
    /\ call.pc = "json"
    /\ call' = OnJsonThrow(op, call)
    /\ UNCHANGED <<op, plain, prot, posts, issued>>
    /\ UNCHANGED others

\* fetch(fetchInput, init) resolves.  No code of the module reads the
\* Replay-Nonce header of a non-2xx answer to a plain fetch, so only 2xx
\* answers are given one.
FetchResolves ==
    /\ plain.pc = "fetching"
    /\ \E ok \in BOOLEAN, hasNonce \in BOOLEAN :
          /\ hasNonce => ok
          /\ PlainStep(PlainOnResponse(plain, Response(plain.a - 1, ok, Replay(hasNonce))))
          /\ issued' = IF hasNonce THEN issued + 1 ELSE issued
    /\ UNCHANGED op
    /\ UNCHANGED others

\* fetch(fetchInput, init) rejects (DNS, connection, timeout).
FetchRejects ==
    /\ plain.pc = "fetching"
    /\ PlainStep(PlainOnThrow(plain))
    /\ UNCHANGED <<op, issued>>
    /\ UNCHANGED others

\* The timer of fetchAndRetryUntilOk fires.
PlainTimerFires ==
    /\ plain.pc = "waiting"
    /\ PlainStep(PlainOnTimer(plain))
    /\ UNCHANGED <<op, issued>>
    /\ UNCHANGED others

\* fetchRequest(POST, url, signed) resolves.
PostResolves ==
    /\ prot.pc = "posting"
    /\ \E ok \in BOOLEAN, hasNonce \in BOOLEAN :
          /\ ProtStep(ProtOnResponse(prot, Response(prot.a - 1, ok, Replay(hasNonce))))
          /\ issued' = IF hasNonce THEN issued + 1 ELSE issued
    /\ UNCHANGED op
    /\ UNCHANGED others

\* fetchRequest(POST, url, signed) rejects.
PostRejects ==
    /\ prot.pc = "posting"
    /\ ProtStep(ProtOnThrow(prot))
    /\ UNCHANGED <<op, issued>>
    /\ UNCHANGED others

\* The await of signPayloadJson / signPayload rejects.
SignRejects ==
    /\ prot.pc = "signing"
    /\ ProtStep(ProtOnSignThrow(prot))
    /\ UNCHANGED <<op, issued>>
    /\ UNCHANGED others

\* A timer of fetchAndRetryProtectedUntilOk fires.
ProtTimerFires ==
    /\ prot.pc \in {"waiting", "nonceWait"}
    /\ ProtStep(ProtOnTimer(prot))
    /\ UNCHANGED <<op, issued>>
    /\ UNCHANGED others

Next ==
    \/ CallFetchAndRetryUntilOk
    \/ CallFetchAndRetryProtectedUntilOk
    \/ newDirectory
    \/ fetchSuggestedWindow
    \/ createAccount
    \/ createOrder
    \/ finalizeOrder
    \/ postAsGet
    \/ postAsGetChal
    \/ getNextNonce
    \/ JsonResolves
    \/ JsonRejects
    \/ FetchResolves
    \/ FetchRejects
    \/ PlainTimerFires
    \/ PostResolves
    \/ PostRejects
    \/ SignRejects
    \/ ProtTimerFires

Spec == Init /\ [][Next]_vars

\* A call of base64urlEncode returns.
ApplyBase64urlEncode ==
    /\ codec.pc = "called" /\ codec.fn = "base64urlEncode"
    /\ codec' = [codec EXCEPT !.pc = "returned",
                              !.chars = base64urlEncode(codec.input)]
    /\ UNCHANGED <<op, plain, prot, posts, issued, call, conc>>

\* A call of hexToBytes returns or throws.
ApplyHexToBytes ==
    /\ codec.pc = "called" /\ codec.fn = "hexToBytes"
    /\ LET r == hexToBytes(codec.hex) IN
          codec' = [codec EXCEPT !.pc = "returned", !.threw = r.threw,
                                 !.bytes = r.bytes]
    /\ UNCHANGED <<op, plain, prot, posts, issued, call, conc>>

\* A call of signPayload returns.
ApplySignPayload ==
    /\ codec.pc = "called" /\ codec.fn = "signPayload"
    /\ codec' = [codec EXCEPT !.pc = "returned",
                    !.jws = signPayload(codec.input, codec.header, codec.key)]
    /\ UNCHANGED <<op, plain, prot, posts, issued, call, conc>>

\* The pure functions, each called once with arguments from CodecCalls.
CodecInit ==
    /\ op = "idle"
    /\ plain = IdlePlain
    /\ prot = IdleProt
    /\ posts = <<>>
    /\ issued = CallerNonce
    /\ call = IdleCall
    /\ codec \in CodecCalls
    /\ conc = IdleConc

CodecNext ==
    \/ ApplyBase64urlEncode
    \/ ApplyHexToBytes
    \/ ApplySignPayload

CodecSpec == CodecInit /\ [][CodecNext]_vars

\* createOrder (call 1) or postAsGet (call 2) is invoked with its nonce and
\* runs to the first POST.
ConcCall(i) ==
    /\ conc.frames[i].pc = "idle"
    /\ LET h == NewHeader(i)
           g == ProtEnter(PayloadOf(NameOf(i)),
                          HeaderOf(NameOf(i), NonceOf(i), Directory),
                          "usable", Directory, AttemptsOf(NameOf(i)))
       IN  conc' = [conc EXCEPT
               !.header[i] = h,
               !.heap[h] = g.protectedHeader,
               !.frames[i] = g,
               !.sent = IF g.pc = "posting"
                        THEN Append(@, [by |-> i, n |-> g.a - 1,
                                        nonce |-> g.protectedHeader.nonce])
                        ELSE @]
    /\ UNCHANGED <<op, plain, prot, posts, issued, call, codec>>

\* The newNonce call of call i returns, with a nonce the server had not
\* issued before or with an error; the retry loop inside newNonce shares
\* nothing with the other call and is taken as one step.
ConcNonceReturns(i) ==
    /\ conc.frames[i].pc = "newNonce"
    /\ \E got \in BOOLEAN :
          ConcStep(i, ProtOnNonce(Frame(i),
                          newNonce(IF got
                                   THEN Response(0, TRUE, conc.issued + 1)
                                   ELSE Undefined), TRUE),
                   IF got THEN 1 ELSE 0)
    /\ UNCHANGED <<op, plain, prot, posts, issued, call, codec>>

\* The POST of call i is answered.
ConcPostResolves(i) ==
    /\ conc.frames[i].pc = "posting"
    /\ \E ok \in BOOLEAN :
          ConcStep(i, ProtOnResponse(Frame(i),
                          Response(conc.frames[i].a - 1, ok, NoNonce)), 0)
    /\ UNCHANGED <<op, plain, prot, posts, issued, call, codec>>

\* The POST of call i is rejected.
ConcPostRejects(i) ==
    /\ conc.frames[i].pc = "posting"
    /\ ConcStep(i, ProtOnThrow(Frame(i)), 0)
    /\ UNCHANGED <<op, plain, prot, posts, issued, call, codec>>

\* A timer of call i fires.
ConcTimerFires(i) ==
    /\ conc.frames[i].pc \in {"waiting", "nonceWait"}
    /\ ConcStep(i, ProtOnTimer(Frame(i)), 0)
    /\ UNCHANGED <<op, plain, prot, posts, issued, call, codec>>

ConcInit == Init

ConcNext ==
    \E i \in Calls :
        \/ ConcCall(i)
        \/ ConcNonceReturns(i)
        \/ ConcPostResolves(i)
        \/ ConcPostRejects(i)
        \/ ConcTimerFires(i)

ConcSpec == ConcInit /\ [][ConcNext]_vars

\* The same program where every promise the loops await settles: each fetch
\* resolves or rejects, each timer fires, the signing returns or throws.
FairSpec ==
    /\ Spec
    /\ WF_vars(FetchResolves \/ FetchRejects)
    /\ WF_vars(PlainTimerFires)
    /\ WF_vars(PostResolves \/ PostRejects)
    /\ WF_vars(SignRejects)
    /\ WF_vars(ProtTimerFires)

\* ================================================================ claims
\* The log line of the attempt that sent posts[i].
AttemptOf(i) == prot.log[posts[i].n]

\* C1: within one call of fetchAndRetryProtectedUntilOk no two POST requests
\* carry the same nonce in their protected header, whatever the mix of 2xx,
\* non-2xx, nonce-acquisition failures and thrown transport failures.
C1_NoNonceSentTwice ==
    \A i, j \in 1..Len(posts) :
        i # j => posts[i].nonce # posts[j].nonce

\* C2: after a non-2xx response with attempts remaining the header's nonce
\* is cleared, the nonce endpoint is asked before the next POST, and the next
\* POST carries another nonce and so another signed body.
C2_NonceRotatedAfterRejection ==
    /\ prot.pc = "waiting" => prot.protectedHeader.nonce = NoNonce
    /\ \A i \in 1..Len(posts) :
          (i < Len(posts) /\ AttemptOf(i).outcome = "notok") =>
              /\ AttemptOf(i).wait # NoWait
              /\ posts[i + 1].asked
              /\ posts[i + 1].nonce # posts[i].nonce
              /\ posts[i + 1].nonce # NoNonce
              /\ posts[i + 1].body # posts[i].body

\* C2 witness: a second POST has been sent after a first one was rejected.
C2_Witness ==
    /\ Len(posts) >= 2
    /\ AttemptOf(1).outcome = "notok"
    /\ posts[2].asked

\* C3: in both loops the first 2xx response ends the loop: it is the value
\* returned, and no request and no wait follows it, even with attempts left.
C3_OkEndsLoop ==
    /\ \A i \in 1..Len(plain.log) :
          plain.log[i].outcome = "ok" =>
              /\ i = Len(plain.log)
              /\ plain.pc = "done"
              /\ plain.result = plain.log[i].response
              /\ plain.log[i].wait = NoWait
    /\ \A k \in 1..Len(prot.log) :
          prot.log[k].outcome = "ok" =>
              /\ k = Len(prot.log)
              /\ prot.pc = "done"
              /\ prot.result = prot.log[k].response
              /\ prot.log[k].wait = NoWait
              /\ posts[Len(posts)].n = k
              /\ plain.caller # "newNonce"

\* C3 witness: fetchAndRetryUntilOk has returned a 2xx response with
\* attempts to spare.
C3_Witness ==
    /\ plain.caller = "direct"
    /\ plain.pc = "done"
    /\ plain.result.some /\ plain.result.ok
    /\ Len(plain.log) < plain.attempts

\* C4: fetchAndRetryUntilOk never calls fetch more than `attempts` times,
\* and when every call fails at the transport level it calls it exactly
\* `attempts` times and returns undefined.
C4_AtMostAttemptsFetches ==
    LET calls == Len(plain.log) + (IF plain.pc = "fetching" THEN 1 ELSE 0) IN
    /\ calls <= plain.attempts
    /\ (/\ plain.pc = "done"
        /\ \A i \in 1..Len(plain.log) : plain.log[i].outcome = "throw")
       => (Len(plain.log) = plain.attempts /\ plain.result = Undefined)

\* C4 witness: attempts = 3, three transport failures, undefined returned.
C4_Witness ==
    /\ plain.caller = "direct"
    /\ plain.pc = "done"
    /\ plain.attempts = 3
    /\ Len(plain.log) = 3
    /\ \A i \in 1..Len(plain.log) : plain.log[i].outcome = "throw"
    /\ plain.result = Undefined

\* C5: fetchAndRetryUntilOk returns a non-2xx response only when it was
\* obtained on the last permitted attempt, and then returns that very
\* response; a non-2xx response obtained with attempts left is not returned.
C5_NotOkReturnedOnlyFromLastAttempt ==
    /\ (plain.pc = "done" /\ plain.result.some /\ ~plain.result.ok) =>
          /\ plain.result.n = plain.attempts
          /\ Len(plain.log) = plain.attempts
          /\ plain.log[Len(plain.log)].response = plain.result
    /\ \A i \in 1..Len(plain.log) :
          plain.log[i].outcome = "notok" =>
              IF plain.log[i].n = plain.attempts
              THEN plain.pc = "done" /\ plain.result = plain.log[i].response
              ELSE plain.result # plain.log[i].response

\* C5 witness: the last of several attempts got a non-2xx response, which
\* is the value returned.
C5_Witness ==
    /\ plain.caller = "direct"
    /\ plain.pc = "done"
    /\ plain.attempts >= 2
    /\ plain.result.some /\ ~plain.result.ok

\* C6: fetchAndRetryUntilOk returns undefined only when every attempt
\* failed at the transport level.
C6_UndefinedOnlyAfterThrowsAlone ==
    (plain.pc = "done" /\ ~plain.result.some) =>
        \A i \in 1..Len(plain.log) : plain.log[i].outcome = "throw"

\* The attempts of the protected loop whose POST received a response.
Answered == {k \in 1..Len(prot.log) : prot.log[k].response.some}
\* The latest of them.
LastAnswered == CHOOSE k \in Answered : \A m \in Answered : m <= k

\* C7: when fetchAndRetryProtectedUntilOk ends without a 2xx response and
\* some POST of it received a response, it returns the most recent response
\* received, never undefined.
C7_LastResponseReturned ==
    (/\ prot.pc = "done"
     /\ ~(prot.result.some /\ prot.result.ok)
     /\ Answered # {})
    => prot.result = prot.log[LastAnswered].response

\* C8: in both loops an attempt that ends in a thrown exception does not
\* end the loop and is followed by a backoff wait before the next attempt.
C8_ThrowIsFollowedByBackoff ==
    /\ \A i \in 1..Len(plain.log) :
          (plain.log[i].outcome = "throw" /\ plain.log[i].n < plain.attempts) =>
              /\ plain.log[i].wait # NoWait
              /\ i = Len(plain.log) => plain.pc # "done"
    /\ \A k \in 1..Len(prot.log) :
          (prot.log[k].outcome = "throw" /\ prot.log[k].n < prot.attempts) =>
              /\ prot.log[k].wait # NoWait
              /\ k = Len(prot.log) => prot.pc # "done"

\* C9: an attempt of fetchAndRetryProtectedUntilOk that starts without a
\* nonce and gets none from newNonce sends no POST, uses up one of the
\* permitted attempts, waits a backoff delay, and the loop goes on with the
\* next attempt (it returns only when that attempt was the last).
C9_NonceFailureUsesUpAnAttempt ==
    /\ Len(prot.log) <= prot.attempts
    /\ \A k \in 1..Len(prot.log) : prot.log[k].n = k
    /\ \A i \in 1..Len(posts) : posts[i].asked => posts[i].nonce # NoNonce
    /\ \A k \in 1..Len(prot.log) :
          prot.log[k].outcome = "nonceFail" =>
              /\ \A i \in 1..Len(posts) : posts[i].n # k
              /\ prot.log[k].asked
              /\ prot.log[k].nonce = NoNonce
              /\ prot.log[k].wait # NoWait
              /\ k = Len(prot.log) =>
                    IF prot.pc = "done"
                    THEN k = prot.attempts /\ prot.result = Undefined
                    ELSE \/ prot.pc = "nonceWait" /\ prot.a = k + 1
                         \/ /\ prot.pc \in {"newNonce", "posting", "signing"}
                            /\ prot.a = k + 2

\* C9 witness: the nonce acquisition of the first attempt failed and the
\* loop has gone on to ask the nonce endpoint again in the second attempt.
C9_Witness ==
    /\ Len(prot.log) = 1
    /\ prot.log[1].outcome = "nonceFail"
    /\ prot.pc = "newNonce"
    /\ prot.a = 3
    /\ posts = <<>>

\* The base delay the code uses for the wait after log line e.
BaseDelayOf(e) ==
    IF e.outcome = "nonceFail" THEN NonceFailBaseDelay ELSE ProtectedBaseDelay

WaitsOf(log) == SelectSeq(log, LAMBDA e : e.wait # NoWait)
\* Each wait of the log is longer than the one before it.
Growing(log) ==
    \A j \in 1..Len(WaitsOf(log)) - 1 :
        WaitsOf(log)[j].wait < WaitsOf(log)[j + 1].wait

\* C11: within one run of either loop each wait is strictly longer than the
\* wait before it, whatever kind of failure caused each of them.
C11_BackoffGrows ==
    /\ Growing(plain.log)
    /\ Growing(prot.log)

\* C19: fetchAndRetryProtectedUntilOk sends no POST while the header's nonce
\* is absent: an attempt that starts without a nonce asks the nonce endpoint
\* first, and signs and posts only if that yielded a nonce.
C19_NoPostWithoutNonce ==
    /\ \A i \in 1..Len(posts) :
          /\ posts[i].nonce # NoNonce
          /\ posts[i].body.protected.nonce = posts[i].nonce
    /\ prot.pc = "posting" => prot.protectedHeader.nonce # NoNonce
    /\ prot.pc = "newNonce" =>
          /\ prot.protectedHeader.nonce = NoNonce
          /\ plain.caller = "newNonce"
          /\ \A i \in 1..Len(posts) : posts[i].n < prot.a - 1

\* C19 witness: an attempt that started without a nonce has asked the nonce
\* endpoint and then sent its POST with the nonce obtained.
C19_Witness ==
    /\ prot.pc = "posting"
    /\ Len(posts) = 1
    /\ posts[1].asked
    /\ posts[1].nonce > CallerNonce

\* C12: createAccount called with the nonce N1 addresses its first POST to
\* the directory's newAccount URL with N1 and that URL in the protected
\* header, and for a 2xx response with Replay-Nonce N2 and Location L it
\* returns get = the parsed body, location = L, nonce = N2 and no error.
C12_CreateAccountEndToEnd ==
    (op = "createAccount" /\ prot.given = CallerNonce) =>
        /\ Len(posts) >= 1 =>
              /\ posts[1].url = Directory.newAccount
              /\ posts[1].nonce = CallerNonce
              /\ posts[1].body.protected.nonce = CallerNonce
              /\ posts[1].body.protected.url = Directory.newAccount
        /\ ( /\ call.pc = "returned"
             /\ call.response.some /\ call.response.ok
             /\ call.response.replay # NoNonce
             /\ call.location = "L"
             /\ ~call.threw ) =>
              call.envelope = [get |-> Json(call.response), error |-> Absent,
                               location |-> "L",
                               nonce |-> call.response.replay]

\* C12 witness: createAccount, called with N1, returned after its first
\* POST was answered 2xx with a Replay-Nonce and a Location.
C12_Witness ==
    /\ op = "createAccount" /\ prot.given = CallerNonce
    /\ call.pc = "returned"
    /\ Len(posts) = 1
    /\ call.response.ok /\ call.response.replay > CallerNonce
    /\ call.location = "L"
    /\ call.envelope.get = Json(call.response)

\* C13: a result returned by any of the seven operations has exactly one of
\* the keys get and error, whatever the network did.
C13_ExactlyOneBranch ==
    (op \in SignedOperations \cup PlainOperations /\ call.pc = "returned") =>
        (call.envelope.get # Absent) # (call.envelope.error # Absent)

\* C13 witness: an operation returned a locally made error object.
C13_Witness ==
    /\ op \in SignedOperations \cup PlainOperations
    /\ call.pc = "returned"
    /\ call.envelope.error.kind = "local"
    /\ call.envelope.get = Absent

\* C14: the nonce of an envelope a signed operation built from a response,
\* when not null, was issued with or after that response and was carried by
\* none of the requests the operation sent.
C14_EnvelopeNonceIsFresh ==
    ( /\ op \in SignedOperations
      /\ call.pc = "returned"
      /\ call.envelope.nonce # NoNonce ) =>
        /\ call.envelope.nonce > call.issuedAt
        /\ call.envelope.nonce <= issued
        /\ call.response.replay # NoNonce =>
              call.envelope.nonce = call.response.replay
        /\ \A i \in 1..Len(posts) : posts[i].nonce # call.envelope.nonce

\* C14 witness: an error envelope whose nonce came from the nonce endpoint,
\* after an operation that had sent the caller's nonce.
C14_Witness ==
    /\ op \in SignedOperations
    /\ call.pc = "returned"
    /\ call.envelope.error = Json(call.response)
    /\ call.response.replay = NoNonce
    /\ call.envelope.nonce # NoNonce
    /\ prot.given = CallerNonce

\* C15: an operation that was handed a non-2xx response by its retry loop,
\* and could parse it, returns the parsed document in its error branch.
C15_ServerErrorReturnedUnchanged ==
    ( /\ call.pc = "returned"
      /\ call.response.some /\ ~call.response.ok
      /\ ~call.threw ) =>
        call.envelope.error = Json(call.response)

\* Every attempt of the operation in progress ended without a response to
\* the operation's own request: the fetch rejected or, in a signed
\* operation, no nonce could be had.
NoResponseEver ==
    IF op \in SignedOperations
    THEN /\ Len(prot.log) = prot.attempts
         /\ \A k \in 1..Len(prot.log) :
               prot.log[k].outcome \in {"throw", "nonceFail"}
    ELSE /\ op \in PlainOperations
         /\ Len(plain.log) = plain.attempts
         /\ \A k \in 1..Len(plain.log) : plain.log[k].outcome = "throw"

C17_JsonThrowIsBacException ==
    /\ call.pc # "rejected"
    /\ call.threw =>
          /\ call.pc = "returned"
          /\ call.envelope.error.type = "bac:exception"
          /\ call.envelope.error.of = op

\* C18: a signed operation in which signing threw returns an error of type
\* bac:exception:<operation>.
C18_SignThrowIsBacException ==
    ( /\ op \in SignedOperations
      /\ call.pc = "returned"
      /\ \E k \in 1..Len(prot.log) : prot.log[k].outcome = "signThrow" ) =>
        /\ call.envelope.error.type = "bac:exception"
        /\ call.envelope.error.of = op

\* C20: called with a nonce, the protected loop asks the nonce endpoint for
\* nothing before its first POST, which is sent in the first attempt with
\* exactly that nonce; newNonce is only ever called for a header without one.
C20_GivenNonceUsedFirst ==
    /\ prot.given # NoNonce =>
          /\ Len(posts) >= 1 =>
                /\ posts[1].n = 1
                /\ posts[1].nonce = prot.given
                /\ posts[1].body.protected.nonce = prot.given
                /\ ~posts[1].asked
          /\ Len(posts) = 0 => plain.caller # "newNonce" /\ ~prot.asked
    /\ plain.caller = "newNonce" => prot.protectedHeader.nonce = NoNonce

\* C20 witness: an exported operation sent its first POST with the nonce
\* it was called with.
C20_Witness ==
    /\ op \in SignedOperations
    /\ prot.given = CallerNonce
    /\ prot.pc = "posting"
    /\ Len(posts) = 1
    /\ posts[1].nonce = CallerNonce

\* C21: getNextNonce returns the Replay-Nonce of the headers it is given
\* without any request; given null or headers without one it asks the nonce
\* endpoint and returns the nonce of a 2xx answer, and null when there is
\* none; its promise is never rejected.
C21_GetNextNonce ==
    op = "getNextNonce" =>
        /\ call.pc \in {"nextNonce", "returned"}
        /\ (call.response.some /\ call.response.replay # NoNonce) =>
              /\ call.pc = "returned"
              /\ call.envelope.nonce = call.response.replay
              /\ plain = IdlePlain
        /\ (~call.response.some \/ call.response.replay = NoNonce) =>
              /\ plain.caller = "getNextNonce"
              /\ call.pc = "returned" <=> plain.pc = "done"
              /\ call.pc = "returned" =>
                    /\ Len(plain.log) >= 1
                    /\ call.envelope.nonce =
                          IF plain.result.some /\ plain.result.ok
                          THEN plain.result.replay ELSE NoNonce

\* C21 witness: getNextNonce(null, directory) returned the nonce of the
\* nonce endpoint's answer.
C21_Witness ==
    /\ op = "getNextNonce"
    /\ ~call.response.some
    /\ call.pc = "returned"
    /\ call.envelope.nonce > CallerNonce

\* C21 second case: getNextNonce returned null after the nonce endpoint
\* could not be reached in any attempt.
C21_NullReached ==
    /\ op = "getNextNonce"
    /\ call.pc = "returned"
    /\ call.envelope.nonce = NoNonce
    /\ ~plain.result.some

\* C30: an error object of type bac:exception:<operation> has the status
\* the README shows for exceptions, 777777.
C30_ExceptionStatusAsInReadme ==
    (call.pc = "returned" /\ call.envelope.error.type = "bac:exception") =>
        call.envelope.error.status = ReadmeExceptionStatus

\* The header names the signer in exactly the way `name` is to: by the
\* public key for createAccount, by the account URL for the others.
SignerNamed(name, header) ==
    IF name = "createAccount"
    THEN header.jwk # "absent" /\ header.kid = "absent"
    ELSE header.kid # "absent" /\ header.jwk = "absent"

\* C28: createAccount signs with a header that has jwk and no kid, the
\* other four signed operations with one that has kid and no jwk, in the
\* header of the loop and in every body posted, on every attempt.
C28_JwkXorKid ==
    op \in SignedOperations =>
        /\ SignerNamed(op, prot.protectedHeader)
        /\ \A i \in 1..Len(posts) : SignerNamed(op, posts[i].body.protected)

\* C28 witness: createAccount has sent a second POST, after it asked for
\* another nonce.
C28_Witness ==
    /\ op = "createAccount"
    /\ Len(posts) = 2
    /\ posts[2].asked
    /\ posts[2].body.protected.jwk = "jsonWebKey"

\* The POSTs whose attempt has ended, by the log of the protected loop.
PostsEnded == Len(SelectSeq(prot.log,
                  LAMBDA e : e.outcome \in {"ok", "notok", "throw"}))

\* A step in which frame f of a retry loop starts its next attempt (g is f
\* after the step): f's attempt has ended and is the last line of the log,
\* and the wait that line scheduled, if any, has just elapsed.
NextAttemptInOrder(f, g, waiting) ==
    (g.a = f.a + 1 /\ f.a >= 2) =>
        /\ Len(g.log) = f.a - 1
        /\ g.log[f.a - 1].n = f.a - 1
        /\ g.log[f.a - 1].wait # NoWait => f.pc \in waiting

\* C22: the attempts of one retry loop are strictly sequential.  No fetch
\* of fetchAndRetryUntilOk and POST of fetchAndRetryProtectedUntilOk are in
\* flight together, every POST but the one in flight has ended, and an
\* attempt starts only when the one before it has ended and its wait, if it
\* scheduled one, has elapsed.
C22_AttemptsSequential ==
    /\ [](/\ ~(plain.pc = "fetching" /\ prot.pc = "posting")
          /\ Len(posts) = PostsEnded + (IF prot.pc = "posting" THEN 1 ELSE 0)
          /\ plain.pc = "fetching" => Len(plain.log) = plain.a - 2
          /\ prot.pc \in {"newNonce", "posting", "signing"} =>
                Len(prot.log) = prot.a - 2)
    /\ [][/\ NextAttemptInOrder(prot, prot', {"waiting", "nonceWait"})
          /\ plain.caller = plain'.caller =>
                NextAttemptInOrder(plain, plain', {"waiting"})]_vars

\* C22 witness: the second POST is in flight, after the first one was
\* answered non-2xx and the wait it scheduled.
C22_Witness ==
    /\ prot.pc = "posting"
    /\ prot.a = 3
    /\ Len(posts) = 2
    /\ prot.log[1].outcome = "notok"
    /\ prot.log[1].wait # NoWait

\* The requests the activation of fetchAndRetryUntilOk has sent so far.
FetchesSent == IF plain.pc = "idle" THEN 0 ELSE plain.a - 1

UrlAlphabet == ReplaceAll(ReplaceAll(Base64Alphabet, "+", "-"), "/", "_")
UrlValue(c) == (CHOOSE v \in 1..64 : UrlAlphabet[v] = c) - 1

\* A text a base64url decoder accepts: unpadded, of the alphabet.
Decodable(s) ==
    /\ Len(s) % 4 # 1
    /\ \A i \in 1..Len(s) : \E v \in 1..64 : UrlAlphabet[v] = s[i]

\* A base64url decoder: four characters make three bytes, a rest of two
\* or three characters one or two bytes.
RECURSIVE base64urlDecode(_)
base64urlDecode(s) ==
    IF Len(s) < 2 THEN <<>>
    ELSE LET v1 == UrlValue(s[1])
             v2 == UrlValue(s[2])
         IN  IF Len(s) = 2 THEN <<v1 * 4 + v2 \div 16>>
             ELSE LET v3 == UrlValue(s[3]) IN
                  IF Len(s) = 3
                  THEN <<v1 * 4 + v2 \div 16, (v2 % 16) * 16 + v3 \div 4>>
                  ELSE <<v1 * 4 + v2 \div 16, (v2 % 16) * 16 + v3 \div 4,
                         (v3 % 4) * 64 + UrlValue(s[4])>>
                       \o base64urlDecode(SubSeq(s, 5, Len(s)))

\* C25: signPayload leaves the payload field empty for the empty payload
\* and sets it to base64url(payload), which is not empty, for every other
\* payload, one of a single character included.
C25_PayloadFieldOfJws ==
    (codec.fn = "signPayload" /\ codec.pc = "returned") =>
        IF codec.input = <<>>
        THEN codec.jws.payload = <<>>
        ELSE /\ codec.jws.payload # <<>>
             /\ codec.jws.payload = base64urlEncode(codec.input)

\* C26: the JWS of signPayload is consistent with itself: its protected
\* and payload fields decode to the header and the payload signed, and the
\* signature was made, with the key given, over the protected field, a dot
\* and the payload field as the JWS holds them.
C26_JwsSelfConsistent ==
    (codec.fn = "signPayload" /\ codec.pc = "returned") =>
        /\ Decodable(codec.jws.protected)
        /\ base64urlDecode(codec.jws.protected) = codec.header
        /\ Decodable(codec.jws.payload)
        /\ base64urlDecode(codec.jws.payload) = codec.input
        /\ codec.jws.signature.key = codec.key
        /\ codec.jws.signature.over =
              codec.jws.protected \o <<".">> \o codec.jws.payload

\* The string is made of pairs of hexadecimal digits.
IsHex(hex) ==
    /\ Len(hex) % 2 = 0
    /\ \A i \in 1..Len(hex) : IsHexDigit(hex[i])

\* C27: hexToBytes throws for a string of odd length and for one with a
\* character that is no hexadecimal digit, and returns the bytes of every
\* other string.
C27_HexToBytesRejectsBadInput ==
    (codec.fn = "hexToBytes" /\ codec.pc = "returned") =>
        IF IsHex(codec.hex)
        THEN /\ ~codec.threw
             /\ Len(codec.bytes) * 2 = Len(codec.hex)
             /\ \A k \in 1..Len(codec.bytes) :
                   codec.bytes[k] = HexValue(codec.hex[2 * k - 1]) * 16
                                    + HexValue(codec.hex[2 * k])
        ELSE codec.threw

\* C29: what base64urlEncode returns decodes to the bytes it was given, and
\* has none of the characters '+', '/' and '='.
C29_Base64urlLossless ==
    (codec.fn = "base64urlEncode" /\ codec.pc = "returned") =>
        /\ \A i \in 1..Len(codec.chars) : codec.chars[i] \notin {"+", "/", "="}
        /\ Decodable(codec.chars)
        /\ base64urlDecode(codec.chars) = codec.input

\* C29 witness: two bytes whose base64 form is "+/8=" were encoded "-_8".
C29_Witness ==
    /\ codec.fn = "base64urlEncode" /\ codec.pc = "returned"
    /\ codec.input = <<251, 255>>
    /\ Base64(codec.input) = <<"+", "/", "8", "=">>
    /\ codec.chars = <<"-", "_", "8">>

\* ------------------------------------------ claims on concurrent calls
\* The other of the two calls.
Other(i) == 3 - i

\* C23: two signed operations in progress together each work on their own
\* protected header: the objects are two, a step of one call leaves the
\* header of the other as it was, nonce included, each POST is signed with
\* the nonce its own header holds, and no nonce is sent by both calls.
C23_HeadersNotShared ==
    /\ [](/\ (conc.header[1] # 0 /\ conc.header[2] # 0) =>
                conc.header[1] # conc.header[2]
          /\ \A x, y \in 1..Len(conc.sent) :
                conc.sent[x].by # conc.sent[y].by =>
                    conc.sent[x].nonce # conc.sent[y].nonce
          /\ \A i \in Calls :
                conc.frames[i].pc = "posting" =>
                    /\ conc.heap[conc.header[i]].nonce # NoNonce
                    /\ \E x \in 1..Len(conc.sent) :
                          /\ conc.sent[x].by = i
                          /\ conc.sent[x].n = conc.frames[i].a - 1
                          /\ conc.sent[x].nonce =
                                conc.heap[conc.header[i]].nonce)
    /\ [][\A i \in Calls :
            (conc.frames'[i] # conc.frames[i] /\ conc.header[Other(i)] # 0) =>
                /\ conc.header'[Other(i)] = conc.header[Other(i)]
                /\ conc.heap'[conc.header[Other(i)]] =
                      conc.heap[conc.header[Other(i)]]]_vars

\* C23 witness: while the first POST of postAsGet is in flight with the
\* nonce it was called with, createOrder has had its nonce cleared, asked
\* for another and sent its second POST.
C23_Witness ==
    /\ conc.frames[1].pc = "posting" /\ conc.frames[1].a = 3
    /\ conc.frames[2].pc = "posting" /\ conc.frames[2].a = 2
    /\ conc.sent[Len(conc.sent)].by = 1
    /\ conc.heap[conc.header[1]].nonce > 2
    /\ conc.heap[conc.header[2]].nonce = NonceOf(2)

\* The operations that are handed the directory object.
TakesDirectory ==
    SignedOperations \cup {"getNextNonce", "fetchAndRetryProtectedUntilOk"}

\* C31: no operation and no retry loop modifies the directory object it is
\* handed: whatever was called and however its requests ended, the object
\* has the entries it had when it was passed, in the eyes of the loop and
\* of the operation that called the loop.
C31_DirectoryNeverModified ==
    /\ prot.pc # "idle" => prot.acmeDirectory = Directory
    /\ op \in SignedOperations \cup {"getNextNonce"} =>
          call.acmeDirectory = Directory
    /\ op \in TakesDirectory \/ (prot.pc = "idle" /\ call.acmeDirectory = NoDirectory)

\* C31 witness: a signed operation has returned after a rejected POST, a
\* second POST with a nonce read from the directory's newNonce URL, and a
\* last nonce request made by getNextNonce.
C31_Witness ==
    /\ op \in SignedOperations
    /\ call.pc = "returned"
    /\ Len(posts) >= 2
    /\ prot.log[1].outcome = "notok"
    /\ posts[2].asked
    /\ ReplayMissing(call.response)
    /\ call.envelope.nonce # NoNonce
    /\ call.acmeDirectory = Directory

\* The payload field of the JWS in every POST sent so far is `field`.
PostsCarry(field) == \A i \in 1..Len(posts) : posts[i].body.payload = field

C32_EmptyReached ==
    /\ op = "postAsGet"
    /\ Len(posts) >= 1
    /\ PostsCarry(<<>>)

\* A protected header with its nonce left out.
ButNonce(protectedHeader) == [protectedHeader EXCEPT !.nonce = NoNonce]

\* C33: fetchAndRetryProtectedUntilOk changes nothing of the protected
\* header but its nonce: alg, url and jwk / kid are at every step what
\* they were at the call, every POST is signed with them, and every POST is
\* sent to the url named in the header that was signed.
C33_OnlyNonceChanges ==
    /\ [](/\ (prot.pc # "idle" /\ op \in SignedOperations) =>
                ButNonce(prot.protectedHeader) =
                    ButNonce(HeaderOf(op, NoNonce, Directory))
          /\ \A i \in 1..Len(posts) :
                /\ posts[i].url = posts[i].body.protected.url
                /\ ButNonce(posts[i].body.protected) =
                      ButNonce(prot.protectedHeader))
    /\ [][prot.pc # "idle" =>
            ButNonce(prot'.protectedHeader) = ButNonce(prot.protectedHeader)]_vars

\* C33 witness: createAccount, whose first POST was answered with a non-2xx
\* status, has sent its second POST with another nonce to the same url.
C33_Witness ==
    /\ op = "createAccount"
    /\ Len(posts) = 2
    /\ prot.log[1].outcome = "notok"
    /\ posts[2].nonce # posts[1].nonce
    /\ posts[2].url = Directory.newAccount
    /\ posts[2].body.protected.jwk = "jsonWebKey"

\* C34: neither loop waits after its last permitted attempt: however that
\* attempt failed (non-2xx response, failed nonce acquisition, exception),
\* no timer is started after it and the loop returns.
C34_NoWaitAfterLastAttempt ==
    /\ \A i \in 1..Len(plain.log) :
          plain.log[i].n = plain.attempts =>
              plain.log[i].wait = NoWait /\ plain.pc = "done"
    /\ \A k \in 1..Len(prot.log) :
          prot.log[k].n = prot.attempts =>
              prot.log[k].wait = NoWait /\ prot.pc = "done"

\* C34 for the attempts that ended with a response or an exception: these
\* start no timer after the last attempt.
C34_NoWaitAfterLastResponse ==
    /\ \A i \in 1..Len(plain.log) :
          plain.log[i].n = plain.attempts =>
              plain.log[i].wait = NoWait /\ plain.pc = "done"
    /\ \A k \in 1..Len(prot.log) :
          (prot.log[k].n = prot.attempts /\ prot.log[k].outcome # "nonceFail")
              => prot.log[k].wait = NoWait /\ prot.pc = "done"

\* C35: a signed operation whose final response has no Replay-Nonce header
\* and whose request to the nonce endpoint yields nothing still returns the
\* parsed body of that response, under get for a 2xx and under error for a
\* non-2xx status, with the Location header and nonce = null; it does not
\* reject and does not return a bac:failed or bac:exception error.  When
\* the nonce endpoint does yield a nonce, only the nonce field differs.
C35_NonceFailureKeepsOutcome ==
    /\ []((/\ op \in SignedOperations
            /\ call.pc = "returned"
            /\ call.response.some
            /\ ~call.threw) =>
              /\ call.envelope.get =
                    IF call.response.ok THEN Json(call.response) ELSE Absent
              /\ call.envelope.error =
                    IF call.response.ok THEN Absent ELSE Json(call.response)
              /\ call.envelope.location = call.location)
    /\ [][(op \in SignedOperations /\ call.pc = "nextNonce") =>
            \/ call' = call
            \/ /\ call'.pc = "returned"
               /\ call'.envelope =
                     returnAnswer(call.response, Json(call.response),
                                  call.location,
                                  IF issued' = issued THEN NoNonce ELSE issued')]_vars

\* C35 witness: the final response was a non-2xx one without Replay-Nonce,
\* the nonce endpoint gave nothing, and the operation returned the problem
\* document under error with nonce = null.
C35_Witness ==
    /\ op \in SignedOperations
    /\ call.pc = "returned"
    /\ call.response.some /\ ~call.response.ok
    /\ ReplayMissing(call.response)
    /\ call.envelope.nonce = NoNonce
    /\ call.envelope.error = Json(call.response)
    /\ call.envelope.get = Absent

\* C35 witness for a 2xx response: the body is under get, nonce = null.
C35_GetReached ==
    /\ op \in SignedOperations
    /\ call.pc = "returned"
    /\ call.response.some /\ call.response.ok
    /\ ReplayMissing(call.response)
    /\ call.envelope.nonce = NoNonce
    /\ call.envelope.get = Json(call.response)

====
